---------------------------- MODULE Spec2Model ----------------------------
(***************************************************************************)
(* Bus boarding optimizer (backend/main.py): the seat-distance resolver    *)
(* with its cache and hit/miss ledger, the heap-based sequencer, the       *)
(* efficiency analyzer, the text parser, and the four POST endpoints that  *)
(* chain them on one shared processor.                                     *)
(*                                                                         *)
(* Six specifications share the variables: Spec (resolver, parser and      *)
(* sequencer on one processor), SpecDistance (the resolver's arithmetic    *)
(* on rows of any size), SpecAnalyze (the analyzer on any list of          *)
(* entries), SpecChain (the sequencer's output under the analyzer),        *)
(* SpecApi (one request to an endpoint) and SpecConcurrent (several        *)
(* requests in flight on the event loop).                                  *)
(*                                                                         *)
(* Strings are sequences of characters; a character is a one-character     *)
(* TLA+ string, except "u0661" which stands for the single character       *)
(* U+0661 (ARABIC-INDIC DIGIT ONE), a decimal digit for Python's \d and    *)
(* int().  Distances are kept in tenths (1.3 is 13): row + columnWeight    *)
(* is 10*row + {3,2,1,0}, which orders the distances as binary64 does for  *)
(* every row below 2^49; SpecDistance models the binary64 sum itself.      *)
(***************************************************************************)
EXTENDS Integers, Sequences, FiniteSets, TLC

VARIABLES
    seat_cache,     \* OptimizedBoardingProcessor.seat_cache : label -> distance
    cache_hits,     \* OptimizedBoardingProcessor.cache_hits
    cache_misses,   \* OptimizedBoardingProcessor.cache_misses
    data,           \* the text handed to parse_booking_data (<<>> when none)
    bookings,       \* the batch handed to process_bookings_with_heap
    stage,          \* "batch": bookings is a caller's batch; "text": data is not
                    \* parsed yet; "parsed": bookings is what parse_booking_data
                    \* returned; "failed": parse_booking_data raised
    entry_list,     \* the entries handed to analyze_boarding_efficiency
    request,        \* the request a POST endpoint is serving (NoRequest when none)
    in_flight,      \* the requests being served concurrently: for each its
                    \* handler coroutine's position and remaining operations
    running,        \* the coroutine the event loop is executing (0 when idle)
    result          \* what the last operation returned or raised

vars == <<seat_cache, cache_hits, cache_misses, data, bookings, stage, entry_list,
          request, in_flight, running, result>>

-----------------------------------------------------------------------------
(* Bounds of the model *)

MaxBatch == 3       \* bookings in a batch passed directly to the sequencer
MaxLines == 2       \* data lines after the header in a parsed text
MaxCalls == 2       \* resolves recorded in the ledger before an operation starts

-----------------------------------------------------------------------------
(* Characters and Python string primitives *)

\* ord(c) of the characters that occur in the inputs
Ord(c) ==
    CASE c = "\t" -> 9   [] c = "\n" -> 10  [] c = " " -> 32  [] c = "\"" -> 34
      [] c = "," -> 44   [] c = "0" -> 48   [] c = "1" -> 49  [] c = "2" -> 50
      [] c = "3" -> 51   [] c = "4" -> 52   [] c = "5" -> 53  [] c = "6" -> 54
      [] c = "7" -> 55   [] c = "8" -> 56   [] c = "9" -> 57
      [] c = "A" -> 65   [] c = "B" -> 66   [] c = "C" -> 67  [] c = "D" -> 68
      [] c = "H" -> 72   [] c = "Z" -> 90   [] c = "x" -> 120
      [] c = "u0661" -> 1633

\* \s of the re module and the whitespace of str.strip()
IsSpace(c) == c \in {" ", "\t", "\n"}

\* \d of the re module on str patterns: any Unicode decimal digit
IsDigit(c) == c \in {"0", "1", "2", "3", "4", "5", "6", "7", "8", "9", "u0661"}

\* the digit value int() gives a decimal digit
DigitValue(c) ==
    CASE c = "0" -> 0 [] c = "1" -> 1 [] c = "2" -> 2 [] c = "3" -> 3
      [] c = "4" -> 4 [] c = "5" -> 5 [] c = "6" -> 6 [] c = "7" -> 7
      [] c = "8" -> 8 [] c = "9" -> 9 [] c = "u0661" -> 1

\* int(s) for a non-empty string of decimal digits
RECURSIVE ParseInt(_)
ParseInt(s) ==
    IF s = <<>> THEN 0
    ELSE 10 * ParseInt(SubSeq(s, 1, Len(s) - 1)) + DigitValue(s[Len(s)])

\* a < b on str: lexicographic by code point, a proper prefix is smaller
RECURSIVE StrLt(_, _)
StrLt(a, b) ==
    IF b = <<>> THEN FALSE
    ELSE IF a = <<>> THEN TRUE
    ELSE IF a[1] # b[1] THEN Ord(a[1]) < Ord(b[1])
    ELSE StrLt(Tail(a), Tail(b))

AllDigits(s) == \A i \in 1..Len(s) : IsDigit(s[i])

-----------------------------------------------------------------------------
(* Distance resolver *)

\* self.column_weights, in tenths
column_weights(column) ==
    CASE column = "A" -> 3 [] column = "B" -> 2 [] column = "C" -> 1
      [] column = "D" -> 0

\* re.match(r'^([A-D])(\d+)$', seat_label): the groups, or no match.
\* '$' also matches just before a newline that ends the string.
SeatMatch(seat_label) ==
    LET n    == Len(seat_label)
        body == IF n >= 1 /\ seat_label[n] = "\n"
                THEN SubSeq(seat_label, 1, n - 1) ELSE seat_label
        exact(s) == /\ Len(s) >= 2
                    /\ s[1] \in {"A", "B", "C", "D"}
                    /\ AllDigits(Tail(s))
    IN  IF exact(seat_label)
        THEN [matched |-> TRUE, column |-> seat_label[1], digits |-> Tail(seat_label)]
        ELSE IF exact(body)
        THEN [matched |-> TRUE, column |-> body[1], digits |-> Tail(body)]
        ELSE [matched |-> FALSE, column |-> "", digits |-> <<>>]

\* _calculate_seat_distance: the distance, or the ValueError it raises
CalculateSeatDistance(seat_label) ==
    LET of(m) ==
            IF ~m.matched THEN [status |-> "InvalidSeatFormat", distance |-> 0]
            ELSE [status |-> "ok",
                  distance |-> 10 * ParseInt(m.digits) + column_weights(m.column)]
    IN  of(SeatMatch(seat_label))

-----------------------------------------------------------------------------
(* The resolver's arithmetic in binary64, for rows of any size.  A Python int
   is kept as its decimal digits, most significant first; a float is a record
   [whole, part]: an integer and a fraction counted in Units.  CalculateSeatDistance
   above is the same function in exact tenths, which is what binary64 orders
   the same way for the small rows of SeatLabels. *)

\* int(row_str): the digits' values, leading zeros dropped
RECURSIVE BigInt(_)
BigInt(s) ==
    IF Len(s) > 1 /\ DigitValue(s[1]) = 0 THEN BigInt(Tail(s))
    ELSE [i \in 1..Len(s) |-> DigitValue(s[i])]

\* a < b on ints of equally many digits
RECURSIVE LexLt(_, _)
LexLt(a, b) ==
    a # <<>> /\ (a[1] < b[1] \/ (a[1] = b[1] /\ LexLt(Tail(a), Tail(b))))

\* a < b on ints
BigLt(a, b) == Len(a) < Len(b) \/ (Len(a) = Len(b) /\ LexLt(a, b))

\* a + 1 on ints
RECURSIVE BigSucc(_)
BigSucc(a) ==
    IF a = <<>> THEN <<1>>
    ELSE IF a[Len(a)] < 9 THEN [a EXCEPT ![Len(a)] = @ + 1]
    ELSE Append(BigSucc(SubSeq(a, 1, Len(a) - 1)), 0)

\* a - 1 on ints, for a > 0
RECURSIVE BigPred(_)
BigPred(a) ==
    IF a[Len(a)] > 0
    THEN IF Len(a) > 1 \/ a[1] > 1 THEN [a EXCEPT ![Len(a)] = @ - 1]
         ELSE <<0>>
    ELSE IF Len(a) = 2 /\ a[1] = 1 THEN <<9>>
    ELSE Append(BigPred(SubSeq(a, 1, Len(a) - 1)), 9)

\* the decimal digits of an int n that fits a machine word
RECURSIVE Digits(_)
Digits(n) == IF n < 10 THEN <<n>> ELSE Append(Digits(n \div 10), n % 10)

\* m * a + carry on an int a, for m and carry that fit a machine word
RECURSIVE BigTimes(_, _, _)
BigTimes(a, m, carry) ==
    IF a = <<>> THEN IF carry = 0 THEN <<>> ELSE Digits(carry)
    ELSE Append(BigTimes(SubSeq(a, 1, Len(a) - 1), m,
                         (m * a[Len(a)] + carry) \div 10),
                (m * a[Len(a)] + carry) % 10)

\* 2 ** k, as the product of two powers that fit a machine word
TwoTo(k) == BigTimes(Digits(2^(k \div 2)), 2^(k - k \div 2), 0)

\* sys.float_info.mant_dig: the bits of a binary64 significand
Mantissa == 53

\* the finest float grid the model tells from exact arithmetic has steps of
\* 2 ** -FineBits; a Unit is a tenth of such a step
FineBits == 6

Unit == 10 * 2^FineBits

\* the binary digits a float keeps after the point when its integer part is
\* whole: Mantissa - 1 - floor(log2(whole)), counted down from k, at least -1
RECURSIVE FractionBits(_, _)
FractionBits(whole, k) ==
    IF k < 0 \/ BigLt(whole, TwoTo(Mantissa - k)) THEN k
    ELSE FractionBits(whole, k - 1)

\* float(row): exact below 2 ** Mantissa; from there to 2 ** (Mantissa + 1)
\* the floats are the even ints and an odd row goes to the neighbour whose
\* significand is even, the multiple of 4
FloatOfInt(row) ==
    LET n == Len(row)
    IN  IF FractionBits(row, FineBits) >= 0 \/ row[n] % 2 = 0
        THEN [whole |-> row, part |-> 0]
        ELSE IF (10 * row[n - 1] + row[n] + 1) % 4 = 0
        THEN [whole |-> BigSucc(row), part |-> 0]
        ELSE [whole |-> BigPred(row), part |-> 0]

\* distance + weight for a float distance with no fraction and a weight of
\* tenths: the sum rounded to the nearest float, a multiple of 2 ** -k for the
\* k fraction bits at distance.  tenths / 10 * 2 ** k is never half way
\* between two ints, so the nearest is floor(x + 1/2).  At FineBits and finer
\* the sum is kept exact.
FloatAddWeight(distance, tenths) ==
    LET on(k) ==
            IF k >= FineBits THEN tenths * (Unit \div 10)
            ELSE IF k < 0 THEN 0
            ELSE ((tenths * 2^k + 5) \div 10) * (Unit \div 2^k)
    IN  [whole |-> distance.whole, part |-> on(FractionBits(distance.whole, FineBits))]

\* a < b on floats
FloatLt(a, b) ==
    BigLt(a.whole, b.whole) \/ (a.whole = b.whole /\ a.part < b.part)

\* _calculate_seat_distance in binary64: the distance, or the ValueError
CalculateSeatDistanceFloat(seat_label) ==
    LET of(m) ==
            IF ~m.matched
            THEN [status |-> "InvalidSeatFormat", distance |-> [whole |-> <<0>>, part |-> 0]]
            ELSE [status |-> "ok",
                  distance |-> FloatAddWeight(FloatOfInt(BigInt(m.digits)),
                                              column_weights(m.column))]
    IN  of(SeatMatch(seat_label))

-----------------------------------------------------------------------------
(* get_seat_distance: the cache and the ledger *)

\* GetSeatDistanceOp without the store of line 40
GetSeatDistanceOpNoStore(p, seat_label) ==
    LET miss(c) ==
            [cache |-> p.cache, hits |-> p.hits, misses |-> p.misses + 1,
             status |-> c.status, distance |-> c.distance]
    IN  IF seat_label \in DOMAIN p.cache
        THEN [cache |-> p.cache, hits |-> p.hits + 1, misses |-> p.misses,
              status |-> "ok", distance |-> p.cache[seat_label]]
        ELSE miss(CalculateSeatDistance(seat_label))

\* GetSeatDistanceOp storing the row, before the column weight is added
GetSeatDistanceOpStoresRow(p, seat_label) ==
    LET miss(c) ==
            IF c.status # "ok"
            THEN [cache |-> p.cache, hits |-> p.hits, misses |-> p.misses + 1,
                  status |-> c.status, distance |-> 0]
            ELSE [cache |-> [l \in DOMAIN p.cache \cup {seat_label} |->
                                IF l = seat_label THEN 10 * (c.distance \div 10)
                                ELSE p.cache[l]],
                  hits |-> p.hits, misses |-> p.misses + 1,
                  status |-> "ok", distance |-> c.distance]
    IN  IF seat_label \in DOMAIN p.cache
        THEN [cache |-> p.cache, hits |-> p.hits + 1, misses |-> p.misses,
              status |-> "ok", distance |-> p.cache[seat_label]]
        ELSE miss(CalculateSeatDistance(seat_label))

\* get_seat_distance on the processor state p = [cache, hits, misses]:
\* the state it leaves and what it returns or raises
GetSeatDistanceOp(p, seat_label) ==
    LET miss(c) ==
            IF c.status # "ok"
            THEN [cache |-> p.cache, hits |-> p.hits, misses |-> p.misses + 1,
                  status |-> c.status, distance |-> 0]
            ELSE [cache |-> [l \in DOMAIN p.cache \cup {seat_label} |->
                                IF l = seat_label THEN c.distance ELSE p.cache[l]],
                  hits |-> p.hits, misses |-> p.misses + 1,
                  status |-> "ok", distance |-> c.distance]
    IN  IF seat_label \in DOMAIN p.cache
        THEN [cache |-> p.cache, hits |-> p.hits + 1, misses |-> p.misses,
              status |-> "ok", distance |-> p.cache[seat_label]]
        ELSE miss(CalculateSeatDistance(seat_label))

-----------------------------------------------------------------------------
(* heapq on a list of (-maxDistance, bookingId, booking_info) tuples.       *)
(* A heap is a sequence; positions are 0-based as in heapq, so position p   *)
(* is element p + 1.                                                        *)

\* TupleLt with the bookingId comparison turned round
TupleLtIdDescending(a, b) ==
    IF a.neg # b.neg THEN (IF a.neg < b.neg THEN "lt" ELSE "ge")
    ELSE IF a.bookingId # b.bookingId
    THEN (IF StrLt(b.bookingId, a.bookingId) THEN "lt" ELSE "ge")
    ELSE IF a.info # b.info THEN "TypeError"
    ELSE "ge"

\* TupleLt deciding on the distance alone
TupleLtIgnoresId(a, b) == IF a.neg < b.neg THEN "lt" ELSE "ge"

\* a < b on two heap tuples: "lt", "ge", or the TypeError raised when the
\* first two components are equal and the unequal dicts have to be ordered
TupleLt(a, b) ==
    IF a.neg # b.neg THEN (IF a.neg < b.neg THEN "lt" ELSE "ge")
    ELSE IF a.bookingId # b.bookingId
    THEN (IF StrLt(a.bookingId, b.bookingId) THEN "lt" ELSE "ge")
    ELSE IF a.info # b.info THEN "TypeError"
    ELSE "ge"

\* heapq._siftdown(heap, startpos, pos) with newitem = heap[pos]
RECURSIVE SiftDown(_, _, _, _)
SiftDown(heap, startpos, pos, newitem) ==
    LET parentpos == (pos - 1) \div 2
        step(c) ==
            IF c = "TypeError" THEN [heap |-> heap, status |-> "TypeError"]
            ELSE IF c = "lt"
            THEN SiftDown([heap EXCEPT ![pos + 1] = heap[parentpos + 1]],
                          startpos, parentpos, newitem)
            ELSE [heap |-> [heap EXCEPT ![pos + 1] = newitem], status |-> "ok"]
    IN  IF pos > startpos THEN step(TupleLt(newitem, heap[parentpos + 1]))
        ELSE [heap |-> [heap EXCEPT ![pos + 1] = newitem], status |-> "ok"]

\* the while loop of heapq._siftup: bubble the smaller child up to a leaf
RECURSIVE SiftUpLoop(_, _, _, _)
SiftUpLoop(heap, startpos, pos, newitem) ==
    LET endpos   == Len(heap)
        childpos == 2 * pos + 1
        rightpos == childpos + 1
        move(pick) == SiftUpLoop([heap EXCEPT ![pos + 1] = heap[pick + 1]],
                                 startpos, pick, newitem)
        step(c) ==
            IF c = "TypeError" THEN [heap |-> heap, status |-> "TypeError"]
            ELSE move(IF rightpos < endpos /\ c # "lt" THEN rightpos ELSE childpos)
    IN  IF childpos < endpos
        THEN step(IF rightpos < endpos
                  THEN TupleLt(heap[childpos + 1], heap[rightpos + 1])
                  ELSE "lt")
        ELSE SiftDown([heap EXCEPT ![pos + 1] = newitem], startpos, pos, newitem)

\* heapq._siftup(heap, pos)
SiftUp(heap, pos) == SiftUpLoop(heap, pos, pos, heap[pos + 1])

\* heapq.heappush(heap, item)
HeapPush(heap, item) == SiftDown(Append(heap, item), 0, Len(heap), item)

\* HeapPop taking the last element of the list instead of the smallest
HeapPopLast(heap) ==
    [heap |-> SubSeq(heap, 1, Len(heap) - 1), item |-> heap[Len(heap)],
     status |-> "ok"]

\* heapq.heappop(heap) on a non-empty heap
HeapPop(heap) ==
    LET lastelt == heap[Len(heap)]
        rest    == SubSeq(heap, 1, Len(heap) - 1)
        sifted(s) == [heap |-> s.heap, item |-> rest[1], status |-> s.status]
    IN  IF rest = <<>>
        THEN [heap |-> rest, item |-> lastelt, status |-> "ok"]
        ELSE sifted(SiftUp([rest EXCEPT ![1] = lastelt], 0))

-----------------------------------------------------------------------------
(* Sequencer *)

SeqMax(ds) == CHOOSE m \in {ds[i] : i \in 1..Len(ds)} : \A i \in 1..Len(ds) : ds[i] <= m
SeqMin(ds) == CHOOSE m \in {ds[i] : i \in 1..Len(ds)} : \A i \in 1..Len(ds) : m <= ds[i]

\* [self.get_seat_distance(seat) for seat in seats], from seat i on;
\* st = [cache, hits, misses, status, dists]
RECURSIVE ResolveSeats(_, _, _)
ResolveSeats(st, seats, i) ==
    LET next(g) ==
            ResolveSeats([cache |-> g.cache, hits |-> g.hits, misses |-> g.misses,
                          status |-> g.status,
                          dists |-> IF g.status = "ok"
                                    THEN Append(st.dists, g.distance) ELSE st.dists],
                         seats, i + 1)
    IN  IF i > Len(seats) \/ st.status # "ok" THEN st
        ELSE next(GetSeatDistanceOp(st, seats[i]))

\* BookingInfo taking the first seat's distance for minDistance
BookingInfoMinOfFirstSeat(booking, dists) ==
    [bookingId   |-> booking.bookingId,
     seats       |-> booking.seats,
     maxDistance |-> SeqMax(dists),
     minDistance |-> dists[1],
     seatCount   |-> Len(booking.seats)]

\* the body of the first loop for one booking: the booking_info dict
BookingInfo(booking, dists) ==
    [bookingId   |-> booking.bookingId,
     seats       |-> booking.seats,
     maxDistance |-> SeqMax(dists),
     minDistance |-> SeqMin(dists),
     seatCount   |-> Len(booking.seats)]

\* HeapItem without the negation of maxDistance
HeapItemNotNegated(info) ==
    [neg |-> info.maxDistance, bookingId |-> info.bookingId, info |-> info]

\* the heap tuple pushed for a booking_info
HeapItem(info) ==
    [neg |-> 0 - info.maxDistance, bookingId |-> info.bookingId, info |-> info]

\* the first loop, from booking i on; st = [cache, hits, misses, status, heap]
RECURSIVE BuildHeap(_, _, _)
BuildHeap(st, batch, i) ==
    LET keep(r, status, heap) ==
            [cache |-> r.cache, hits |-> r.hits, misses |-> r.misses,
             status |-> status, heap |-> heap]
        pushed(r, h) == BuildHeap(keep(r, h.status, h.heap), batch, i + 1)
        resolved(r) ==
            IF r.status # "ok" THEN keep(r, r.status, st.heap)
            ELSE IF r.dists = <<>> THEN keep(r, "EmptySequence", st.heap)
            ELSE pushed(r, HeapPush(st.heap, HeapItem(BookingInfo(batch[i], r.dists))))
    IN  IF i > Len(batch) \/ st.status # "ok" THEN st
        ELSE resolved(ResolveSeats([cache |-> st.cache, hits |-> st.hits,
                                    misses |-> st.misses, status |-> "ok",
                                    dists |-> <<>>], batch[i].seats, 1))

\* SequencedEntry numbering from 0
SequencedEntryZeroBased(sequence_num, info) ==
    [sequence    |-> sequence_num - 1,
     bookingId   |-> info.bookingId,
     seats       |-> info.seats,
     maxDistance |-> info.maxDistance,
     minDistance |-> info.minDistance]

\* the entry appended to boarding_sequence for a popped booking_info
SequencedEntry(sequence_num, info) ==
    [sequence    |-> sequence_num,
     bookingId   |-> info.bookingId,
     seats       |-> info.seats,
     maxDistance |-> info.maxDistance,
     minDistance |-> info.minDistance]

\* the second loop: pop until the heap is empty, numbering from sequence_num
RECURSIVE DrainHeap(_, _, _)
DrainHeap(heap, boarding_sequence, sequence_num) ==
    LET popped(p) ==
            IF p.status # "ok"
            THEN [status |-> p.status, boardingSequence |-> boarding_sequence]
            ELSE DrainHeap(p.heap,
                           Append(boarding_sequence,
                                  SequencedEntry(sequence_num, p.item.info)),
                           sequence_num + 1)
    IN  IF heap = <<>>
        THEN [status |-> "ok", boardingSequence |-> boarding_sequence]
        ELSE popped(HeapPop(heap))

\* SumSeats counting each distinct label of a booking once
RECURSIVE SumSeatsDistinct(_)
SumSeatsDistinct(batch) ==
    IF batch = <<>> THEN 0
    ELSE Cardinality({batch[1].seats[i] : i \in 1..Len(batch[1].seats)})
             + SumSeatsDistinct(Tail(batch))

RECURSIVE SumSeats(_)
SumSeats(batch) ==
    IF batch = <<>> THEN 0 ELSE Len(batch[1].seats) + SumSeats(Tail(batch))

\* ProcessBookingsWithHeap taking the largest maxDistance of the batch before
\* it sequences, which an empty batch does not have
ProcessBookingsWithHeapRejectsEmpty(p, batch) ==
    LET done(b, d) ==
            [cache |-> b.cache, hits |-> b.hits, misses |-> b.misses,
             status |-> d.status,
             boardingSequence |-> IF d.status = "ok" THEN d.boardingSequence ELSE <<>>,
             totalBookings    |-> IF d.status = "ok" THEN Len(batch) ELSE 0,
             totalPassengers  |-> IF d.status = "ok" THEN SumSeats(batch) ELSE 0]
        drained(b) ==
            done(b, IF b.status # "ok"
                    THEN [status |-> b.status, boardingSequence |-> <<>>]
                    ELSE IF b.heap = <<>>
                    THEN [status |-> "EmptySequence", boardingSequence |-> <<>>]
                    ELSE DrainHeap(b.heap, <<>>, 1))
    IN  drained(BuildHeap([cache |-> p.cache, hits |-> p.hits, misses |-> p.misses,
                           status |-> "ok", heap |-> <<>>], batch, 1))

\* process_bookings_with_heap on processor state p: the state it leaves and
\* the dict it returns (boardingSequence is <<>> when it raises)
ProcessBookingsWithHeap(p, batch) ==
    LET done(b, d) ==
            [cache |-> b.cache, hits |-> b.hits, misses |-> b.misses,
             status |-> d.status,
             boardingSequence |-> IF d.status = "ok" THEN d.boardingSequence ELSE <<>>,
             totalBookings    |-> IF d.status = "ok" THEN Len(batch) ELSE 0,
             totalPassengers  |-> IF d.status = "ok" THEN SumSeats(batch) ELSE 0]
        drained(b) ==
            done(b, IF b.status = "ok" THEN DrainHeap(b.heap, <<>>, 1)
                    ELSE [status |-> b.status, boardingSequence |-> <<>>])
    IN  drained(BuildHeap([cache |-> p.cache, hits |-> p.hits, misses |-> p.misses,
                           status |-> "ok", heap |-> <<>>], batch, 1))

-----------------------------------------------------------------------------
(* analyze_boarding_efficiency.  What Python's / returns is kept as the     *)
(* fraction [num, den]; maxDistance is in tenths, so averageDistance and    *)
(* blockingPotential are in tenths too.                                     *)

\* a / b
Quotient(a, b) == [num |-> a, den |-> b]

\* sum(distances)
RECURSIVE SumDistances(_)
SumDistances(sequence) ==
    IF sequence = <<>> THEN 0
    ELSE sequence[1].maxDistance + SumDistances(Tail(sequence))

\* BlockingLoop whose inner loop looks at the next entry only
RECURSIVE BlockingLoopAdjacent(_, _, _, _)
BlockingLoopAdjacent(sequence, i, j, blocking_potential) ==
    IF i >= Len(sequence) - 1 THEN blocking_potential
    ELSE IF j >= Len(sequence) \/ j > i + 1
    THEN BlockingLoopAdjacent(sequence, i + 1, i + 2, blocking_potential)
    ELSE BlockingLoopAdjacent(sequence, i, j + 1,
             IF sequence[i + 1].maxDistance < sequence[j + 1].maxDistance
             THEN blocking_potential
                      + (sequence[j + 1].maxDistance - sequence[i + 1].maxDistance)
             ELSE blocking_potential)

\* the two loops over i in range(len - 1) and j in range(i + 1, len), from
\* (i, j) on; i and j are 0-based as in the code
RECURSIVE BlockingLoop(_, _, _, _)
BlockingLoop(sequence, i, j, blocking_potential) ==
    IF i >= Len(sequence) - 1 THEN blocking_potential
    ELSE IF j >= Len(sequence)
    THEN BlockingLoop(sequence, i + 1, i + 2, blocking_potential)
    ELSE BlockingLoop(sequence, i, j + 1,
             IF sequence[i + 1].maxDistance < sequence[j + 1].maxDistance
             THEN blocking_potential
                      + (sequence[j + 1].maxDistance - sequence[i + 1].maxDistance)
             ELSE blocking_potential)

\* InsertByKey putting the item in front of the items with an equal key
InsertByKeyBeforeTies(ideal_order, item) ==
    LET at(k) == SubSeq(ideal_order, 1, k) \o <<item>>
                     \o SubSeq(ideal_order, k + 1, Len(ideal_order))
    IN  at(Cardinality({p \in 1..Len(ideal_order) :
                           ideal_order[p].maxDistance > item.maxDistance}))

\* sorted() is stable: an item goes behind the items taken before it whose
\* key -maxDistance is not larger than its own
InsertByKey(ideal_order, item) ==
    LET at(k) == SubSeq(ideal_order, 1, k) \o <<item>>
                     \o SubSeq(ideal_order, k + 1, Len(ideal_order))
    IN  at(Cardinality({p \in 1..Len(ideal_order) :
                           ideal_order[p].maxDistance >= item.maxDistance}))

\* sorted(sequence, key=lambda x: -x['maxDistance']), the items of sequence
\* taken in order into ideal_order
RECURSIVE SortedByKey(_, _)
SortedByKey(sequence, ideal_order) ==
    IF sequence = <<>> THEN ideal_order
    ELSE SortedByKey(Tail(sequence), InsertByKey(ideal_order, sequence[1]))

\* CorrectPositions comparing maxDistance instead of bookingId
CorrectPositionsByDistance(sequence, ideal_order) ==
    Cardinality({i \in 1..Len(sequence) :
                    sequence[i].maxDistance = ideal_order[i].maxDistance})

\* correct_positions
CorrectPositions(sequence, ideal_order) ==
    Cardinality({i \in 1..Len(sequence) :
                    sequence[i].bookingId = ideal_order[i].bookingId})

\* AnalyzeBoardingEfficiency without the guard of lines 128-129
AnalyzeBoardingEfficiencyNoGuard(sequence) ==
    IF sequence = <<>>
    THEN [status |-> "ZeroDivisionError", averageDistance |-> Quotient(0, 1),
          blockingPotential |-> 0, optimalityScore |-> Quotient(0, 1)]
    ELSE [status |-> "ok",
          averageDistance   |-> Quotient(SumDistances(sequence), Len(sequence)),
          blockingPotential |-> BlockingLoop(sequence, 0, 1, 0),
          optimalityScore   |->
              Quotient(CorrectPositions(sequence, SortedByKey(sequence, <<>>)) * 100,
                       Len(sequence))]

\* analyze_boarding_efficiency(sequence): the dict it returns
AnalyzeBoardingEfficiency(sequence) ==
    IF sequence = <<>>
    THEN [status |-> "ok", averageDistance |-> Quotient(0, 1),
          blockingPotential |-> 0, optimalityScore |-> Quotient(0, 1)]
    ELSE [status |-> "ok",
          averageDistance   |-> Quotient(SumDistances(sequence), Len(sequence)),
          blockingPotential |-> BlockingLoop(sequence, 0, 1, 0),
          optimalityScore   |->
              Quotient(CorrectPositions(sequence, SortedByKey(sequence, <<>>)) * 100,
                       Len(sequence))]

-----------------------------------------------------------------------------
(* Python string and re primitives used by parse_booking_data *)

RECURSIVE LStrip(_)
LStrip(s) == IF s # <<>> /\ IsSpace(s[1]) THEN LStrip(Tail(s)) ELSE s

RECURSIVE RStrip(_)
RStrip(s) ==
    IF s # <<>> /\ IsSpace(s[Len(s)]) THEN RStrip(SubSeq(s, 1, Len(s) - 1)) ELSE s

\* s.strip()
Strip(s) == RStrip(LStrip(s))

\* c in s
Contains(s, c) == \E i \in 1..Len(s) : s[i] = c

\* the least index i >= from with s[i] = c, or 0
IndexOf(s, c, from) ==
    IF \E i \in from..Len(s) : s[i] = c
    THEN CHOOSE i \in from..Len(s) : s[i] = c /\ \A j \in from..(i - 1) : s[j] # c
    ELSE 0

\* s.split(sep) for a one-character separator
RECURSIVE Split(_, _)
Split(s, sep) ==
    LET i == IndexOf(s, sep, 1)
    IN  IF i = 0 THEN <<s>>
        ELSE <<SubSeq(s, 1, i - 1)>> \o Split(SubSeq(s, i + 1, Len(s)), sep)

\* sep.join(parts)
RECURSIVE Join(_, _)
Join(parts, sep) ==
    IF parts = <<>> THEN <<>>
    ELSE IF Len(parts) = 1 THEN parts[1]
    ELSE parts[1] \o <<sep>> \o Join(Tail(parts), sep)

\* s.replace(c, '')
RECURSIVE Remove(_, _)
Remove(s, c) ==
    IF s = <<>> THEN <<>>
    ELSE IF s[1] = c THEN Remove(Tail(s), c)
    ELSE <<s[1]>> \o Remove(Tail(s), c)

IsDelim(c) == IsSpace(c) \/ c = ","

\* re.split(r'[\s,]+', s): the pieces between the maximal runs of
\* delimiters, empty pieces at the two ends included
RECURSIVE ReSplit(_, _, _)
ReSplit(s, i, piece) ==
    IF i > Len(s) THEN <<piece>>
    ELSE IF IsDelim(s[i])
    THEN IF i > 1 /\ IsDelim(s[i - 1]) THEN ReSplit(s, i + 1, piece)
         ELSE <<piece>> \o ReSplit(s, i + 1, <<>>)
    ELSE ReSplit(s, i + 1, Append(piece, s[i]))

\* re.match(r'^([^,]+),\s*"([^"]+)"', line): the groups, or no match
CsvMatch(line) ==
    LET comma == IndexOf(line, ",", 1)
        open  == IF comma = 0 THEN 0
                 ELSE IF \E i \in (comma + 1)..Len(line) : ~IsSpace(line[i])
                 THEN CHOOSE i \in (comma + 1)..Len(line) :
                          /\ ~IsSpace(line[i])
                          /\ \A j \in (comma + 1)..(i - 1) : IsSpace(line[j])
                 ELSE 0
        close == IF open = 0 THEN 0 ELSE IndexOf(line, "\"", open + 1)
    IN  IF comma >= 2 /\ open > 0 /\ line[open] = "\"" /\ close >= open + 2
        THEN [matched |-> TRUE, id |-> SubSeq(line, 1, comma - 1),
              seats |-> SubSeq(line, open + 1, close - 1)]
        ELSE [matched |-> FALSE, id |-> <<>>, seats |-> <<>>]

\* re.match(r'^[A-D]\d+$', seat) of the seat validation: matched or not
SeatFilterMatch(seat) ==
    LET n == Len(seat)
        body == IF n >= 1 /\ seat[n] = "\n" THEN SubSeq(seat, 1, n - 1) ELSE seat
        exact(s) == Len(s) >= 2 /\ s[1] \in {"A", "B", "C", "D"} /\ AllDigits(Tail(s))
    IN  exact(seat) \/ exact(body)

-----------------------------------------------------------------------------
(* parse_booking_data *)

\* booking_id and seats_str of a line that holds a quote (lines 200-212)
QuotedFields(line) ==
    LET fallback(parts) ==
            IF Len(parts) >= 2
            THEN [booking_id |-> Strip(parts[1]),
                  seats_str  |-> Strip(Remove(Join(Tail(parts), ","), "\""))]
            ELSE [booking_id |-> <<>>, seats_str |-> <<>>]
        of(csv_match) ==
            IF csv_match.matched
            THEN [booking_id |-> Strip(csv_match.id), seats_str |-> Strip(csv_match.seats)]
            ELSE fallback(Split(line, ","))
    IN  of(CsvMatch(line))

\* booking_id and seats_str of a line without a quote (lines 214-228);
\* skip: the line has fewer than two parts
PlainFields(line) ==
    LET of(parts) ==
            IF Len(parts) < 2
            THEN [skip |-> TRUE, booking_id |-> <<>>, seats_str |-> <<>>]
            ELSE [skip |-> FALSE,
                  booking_id |-> parts[1],
                  seats_str |-> IF Len(parts) = 2 /\ Contains(parts[2], ",")
                                THEN parts[2]
                                ELSE Join(Tail(parts), ",")]
    IN  of(ReSplit(line, 1, <<>>))

\* valid_seats of a seats_str (lines 238-242)
ValidSeats(seats_str) ==
    LET NonBlank(x) == Strip(x) # <<>>
        stripped(kept) == [i \in 1..Len(kept) |-> Strip(kept[i])]
    IN  SelectSeq(stripped(SelectSeq(ReSplit(seats_str, 1, <<>>), NonBlank)),
                  SeatFilterMatch)

\* AcceptFields without the duplicate check of lines 234-236
AcceptFieldsNoDuplicateCheck(st, f) ==
    LET add(valid_seats) ==
            IF valid_seats # <<>>
            THEN [st EXCEPT !.bookings = Append(@, [bookingId |-> f.booking_id,
                                                    seats |-> valid_seats]),
                            !.booking_ids = @ \cup {f.booking_id}]
            ELSE st
    IN  IF f.booking_id = <<>> \/ f.seats_str = <<>> THEN st
        ELSE add(ValidSeats(f.seats_str))

\* lines 230-251 for the fields of a line; st = [bookings, booking_ids,
\* re_bound, status]
AcceptFields(st, f) ==
    LET add(valid_seats) ==
            IF valid_seats # <<>>
            THEN [st EXCEPT !.bookings = Append(@, [bookingId |-> f.booking_id,
                                                    seats |-> valid_seats]),
                            !.booking_ids = @ \cup {f.booking_id}]
            ELSE st
    IN  IF f.booking_id = <<>> \/ f.seats_str = <<>> THEN st
        ELSE IF f.booking_id \in st.booking_ids THEN st
        ELSE add(ValidSeats(f.seats_str))

\* the body of the for loop for one stripped line.  re_bound: the
\* function-local name re is bound, which only the "import re" of the quoted
\* branch (line 202) does; the plain branch reads re at line 215.
ParseStrippedLine(st, line) ==
    LET plain(f) == IF f.skip THEN st ELSE AcceptFields(st, f)
    IN  IF line = <<>> THEN st
        ELSE IF Contains(line, "\"")
        THEN AcceptFields([st EXCEPT !.re_bound = TRUE], QuotedFields(line))
        ELSE IF ~st.re_bound THEN [st EXCEPT !.status = "UnboundLocalError"]
        ELSE plain(PlainFields(line))

ParseLine(st, raw) == ParseStrippedLine(st, Strip(raw))

RECURSIVE ParseLines(_, _, _)
ParseLines(st, lines, i) ==
    IF i > Len(lines) \/ st.status # "ok" THEN st
    ELSE ParseLines(ParseLine(st, lines[i]), lines, i + 1)

\* parse_booking_data(data): the list it returns, or the exception it raises
ParseBookingData(text) ==
    LET returns(st) ==
            [status |-> st.status,
             bookings |-> IF st.status = "ok" THEN st.bookings ELSE <<>>]
    IN  returns(ParseLines([bookings |-> <<>>, booking_ids |-> {},
                            re_bound |-> FALSE, status |-> "ok"],
                           Split(Strip(text), "\n"), 2))

-----------------------------------------------------------------------------
(* The POST endpoints.  A handler works on the module-level processor and   *)
(* ends in a response [status, body]: status 200 with the dict it returns,  *)
(* or the HTTPException(status_code=400) its except clause raises, whose    *)
(* body carries the kind of error as detail.                                *)

\* s.endswith(suffix)
EndsWith(s, suffix) ==
    Len(s) >= Len(suffix) /\ SubSeq(s, Len(s) - Len(suffix) + 1, Len(s)) = suffix

\* data.get('iterations', 1) of test_optimization
DefaultTestIterations == 1

\* data.get('iterations', 10) of benchmark_algorithms
DefaultBenchmarkIterations == 10

\* processor.clear_cache() on processor state p
ClearCacheOp(p) == [cache |-> << >>, hits |-> 0, misses |-> 0]

\* raise HTTPException(status_code=400, detail=...) with the processor as p
ClientError(p, detail) ==
    [cache |-> p.cache, hits |-> p.hits, misses |-> p.misses,
     status |-> 400, body |-> [detail |-> detail]]

\* the efficiency dict, as analyze_boarding_efficiency returned it
Efficiency(e) ==
    [averageDistance   |-> e.averageDistance,
     blockingPotential |-> e.blockingPotential,
     optimalityScore   |-> e.optimalityScore]

\* BookingResponse passing the cacheStats of the result on
BookingResponseWithCacheStats(r, efficiency) ==
    [boardingSequence |-> r.boardingSequence,
     totalBookings    |-> r.totalBookings,
     totalPassengers  |-> r.totalPassengers,
     cacheStats       |-> [hits |-> r.hits, misses |-> r.misses],
     efficiency       |-> efficiency,
     success          |-> TRUE]

\* the response dict of process_booking_data for the sequencer's result r
BookingResponse(r, efficiency) ==
    [boardingSequence |-> r.boardingSequence,
     totalBookings    |-> r.totalBookings,
     totalPassengers  |-> r.totalPassengers,
     efficiency       |-> efficiency,
     success          |-> TRUE]

\* the response dict of upload_file
UploadResponse(r, efficiency, filename) ==
    [boardingSequence |-> r.boardingSequence,
     totalBookings    |-> r.totalBookings,
     totalPassengers  |-> r.totalPassengers,
     filename         |-> filename,
     efficiency       |-> efficiency,
     success          |-> TRUE]

\* the response dict of test_optimization
TestResponse(r, efficiency) ==
    [boardingSequence |-> r.boardingSequence,
     totalBookings    |-> r.totalBookings,
     totalPassengers  |-> r.totalPassengers,
     efficiency       |-> efficiency,
     testCompleted    |-> TRUE,
     success          |-> TRUE]

\* the response dict of benchmark_algorithms
BenchmarkResponse(r, efficiency) ==
    [boardingSequence   |-> r.boardingSequence,
     totalBookings      |-> r.totalBookings,
     totalPassengers    |-> r.totalPassengers,
     efficiency         |-> efficiency,
     benchmarkCompleted |-> TRUE,
     success            |-> TRUE]

\* status 200 with body, the processor as the sequencer's result r left it
Success(r, body) ==
    [cache |-> r.cache, hits |-> r.hits, misses |-> r.misses,
     status |-> 200, body |-> body]

\* for _ in range(n): clear_cache(); generate_boarding_sequence(bookings),
\* from the sequencer state st = [cache, hits, misses, status, ...] on
RECURSIVE IterationLoop(_, _, _)
IterationLoop(st, batch, n) ==
    IF n <= 0 \/ st.status # "ok" THEN st
    ELSE IterationLoop(ProcessBookingsWithHeap(ClearCacheOp(st), batch), batch, n - 1)

\* process_booking_data(data) for the request req with data['data'] = text
ProcessBookingData(p, req, text) ==
    LET generated(r) ==
            IF r.status # "ok" THEN ClientError(r, r.status)
            ELSE Success(r, BookingResponse(r,
                     Efficiency(AnalyzeBoardingEfficiency(r.boardingSequence))))
        parsed(b) ==
            IF b.status # "ok" THEN ClientError(p, b.status)
            ELSE generated(ProcessBookingsWithHeap(p, b.bookings))
    IN  IF ~req.hasData THEN ClientError(p, "MissingData")
        ELSE parsed(ParseBookingData(text))

\* upload_file(file) for a file named req.filename whose content decodes to text
UploadFile(p, req, text) ==
    LET generated(r) ==
            IF r.status # "ok" THEN ClientError(r, r.status)
            ELSE Success(r, UploadResponse(r,
                     Efficiency(AnalyzeBoardingEfficiency(r.boardingSequence)),
                     req.filename))
        parsed(b) ==
            IF b.status # "ok" THEN ClientError(p, b.status)
            ELSE generated(ProcessBookingsWithHeap(p, b.bookings))
    IN  IF ~(EndsWith(req.filename, <<".", "t", "x", "t">>)
                \/ EndsWith(req.filename, <<".", "c", "s", "v">>))
        THEN ClientError(p, "UnsupportedFile")
        ELSE IF ~req.decodes THEN ClientError(p, "UnicodeDecodeError")
        ELSE parsed(ParseBookingData(text))

\* test_optimization(data)
TestOptimization(p, req, text) ==
    LET generated(r) ==
            IF r.status # "ok" THEN ClientError(r, r.status)
            ELSE Success(r, TestResponse(r,
                     Efficiency(AnalyzeBoardingEfficiency(r.boardingSequence))))
        looped(st, batch, iterations) ==
            IF st.status # "ok" THEN ClientError(st, st.status)
            ELSE IF iterations = 0 THEN ClientError(st, "ZeroDivisionError")
            ELSE generated(ProcessBookingsWithHeap(st, batch))
        iterate(batch, iterations) ==
            looped(IterationLoop([cache |-> p.cache, hits |-> p.hits,
                                  misses |-> p.misses, status |-> "ok"],
                                 batch, iterations),
                   batch, iterations)
        parsed(b) ==
            IF b.status # "ok" THEN ClientError(p, b.status)
            ELSE iterate(b.bookings, IF req.hasIterations THEN req.iterations
                                     ELSE DefaultTestIterations)
    IN  IF ~req.hasData THEN ClientError(p, "MissingData")
        ELSE parsed(ParseBookingData(text))

\* benchmark_algorithms(data)
BenchmarkAlgorithms(p, req, text) ==
    LET generated(r) ==
            IF r.status # "ok" THEN ClientError(r, r.status)
            ELSE Success(r, BenchmarkResponse(r,
                     Efficiency(AnalyzeBoardingEfficiency(r.boardingSequence))))
        looped(st, batch, iterations) ==
            IF st.status # "ok" THEN ClientError(st, st.status)
            ELSE IF iterations <= 0 THEN ClientError(st, "ZeroDivisionError")
            ELSE generated(ProcessBookingsWithHeap(st, batch))
        iterate(batch, iterations) ==
            looped(IterationLoop([cache |-> p.cache, hits |-> p.hits,
                                  misses |-> p.misses, status |-> "ok"],
                                 batch, iterations),
                   batch, iterations)
        parsed(b) ==
            IF b.status # "ok" THEN ClientError(p, b.status)
            ELSE iterate(b.bookings, IF req.hasIterations THEN req.iterations
                                     ELSE DefaultBenchmarkIterations)
    IN  IF ~req.hasData THEN ClientError(p, "MissingData")
        ELSE parsed(ParseBookingData(text))

-----------------------------------------------------------------------------
(* The handlers as coroutines.  A handler is an async def: the event loop   *)
(* runs it until it awaits or ends, and only then runs another one.  What   *)
(* a handler does to the shared processor is a fixed list of operations,    *)
(* each a record [kind, label]: "await" (await file.read()), "clear"        *)
(* (clear_cache), "enter" and "return" (the start and the end of one        *)
(* process_bookings_with_heap call) and "resolve" (one get_seat_distance    *)
(* call of its first loop).                                                 *)

Operation(kind, label) == [kind |-> kind, label |-> label]

\* an operation after which the coroutine gives the event loop away
\* whatever it is
YieldsAnywhere(op) == TRUE

\* an operation after which the coroutine gives the event loop away: the
\* only await of the four handlers is upload_file's await file.read()
Yields(op) == op.kind = "await"

\* the get_seat_distance calls of the first loop, booking by booking and
\* seat by seat
RECURSIVE ResolveCalls(_)
ResolveCalls(batch) ==
    IF batch = <<>> THEN <<>>
    ELSE [k \in 1..Len(batch[1].seats) |-> Operation("resolve", batch[1].seats[k])]
             \o ResolveCalls(Tail(batch))

\* one generate_boarding_sequence(bookings) call on a parsed batch
SequencingCall(batch) ==
    <<Operation("enter", <<>>)>> \o ResolveCalls(batch)
        \o <<Operation("return", <<>>)>>

\* for i in range(iterations): clear_cache(); generate_boarding_sequence(bookings)
RECURSIVE IterationCalls(_, _)
IterationCalls(batch, n) ==
    IF n <= 0 THEN <<>>
    ELSE <<Operation("clear", <<>>)>> \o SequencingCall(batch)
             \o IterationCalls(batch, n - 1)

\* what the handler of req does to the processor, and whether it then raises
\* (answered 400) or returns (answered 200)
HandlerProgram(req, text) ==
    LET raise(ops) == [ops |-> ops, raises |-> TRUE]
        return(ops) == [ops |-> ops, raises |-> FALSE]
        await == <<Operation("await", <<>>)>>
        iterations(default) ==
            IF req.hasIterations THEN req.iterations ELSE default
        measured(batch, n, fails) ==
            IF fails THEN raise(IterationCalls(batch, n))
            ELSE return(IterationCalls(batch, n) \o SequencingCall(batch))
        handle(b) ==
            CASE req.endpoint = "/process-booking-data" ->
                     IF b.status # "ok" THEN raise(<<>>)
                     ELSE return(SequencingCall(b.bookings))
              [] req.endpoint = "/upload-file" ->
                     IF b.status # "ok" THEN raise(await)
                     ELSE return(await \o SequencingCall(b.bookings))
              [] req.endpoint = "/test-optimization" ->
                     IF b.status # "ok" THEN raise(<<>>)
                     ELSE measured(b.bookings, iterations(DefaultTestIterations),
                                   iterations(DefaultTestIterations) = 0)
              [] req.endpoint = "/benchmark" ->
                     IF b.status # "ok" THEN raise(<<>>)
                     ELSE measured(b.bookings,
                                   iterations(DefaultBenchmarkIterations),
                                   iterations(DefaultBenchmarkIterations) <= 0)
    IN  IF req.endpoint = "/upload-file"
        THEN IF ~(EndsWith(req.filename, <<".", "t", "x", "t">>)
                     \/ EndsWith(req.filename, <<".", "c", "s", "v">>))
             THEN raise(<<>>)
             ELSE IF ~req.decodes THEN raise(await)
             ELSE handle(ParseBookingData(text))
        ELSE IF ~req.hasData THEN raise(<<>>)
        ELSE handle(ParseBookingData(text))

-----------------------------------------------------------------------------
(* Inputs *)

\* seat labels handed to get_seat_distance: well-formed ones (two of them
\* with the same row and column), malformed ones, one with a trailing
\* newline and one whose row is a non-ASCII decimal digit
SeatLabels ==
    { <<"A", "1">>, <<"A", "0", "1">>, <<"D", "2">>,
      <<"Z", "9">>, <<"A">>, <<"A", "1", "\n">>, <<"A", "u0661">> }

\* bookings a caller of process_bookings_with_heap may pass
BookingPool ==
    { [bookingId |-> <<"2">>,      seats |-> << <<"A", "1">>, <<"B", "1">> >>],
      [bookingId |-> <<"1", "0">>, seats |-> << <<"A", "0", "1">> >>],
      [bookingId |-> <<"1">>,      seats |-> << <<"D", "2">>, <<"A", "1">> >>],
      [bookingId |-> <<"2">>,      seats |-> << <<"A", "1">>, <<"A", "1">> >>],
      [bookingId |-> <<"3">>,      seats |-> << <<"D", "2">>, <<"Z", "9">> >>],
      [bookingId |-> <<"4">>,      seats |-> << >>] }

Batches == UNION { [1..n -> BookingPool] : n \in 0..MaxBatch }

\* lines of a text handed to parse_booking_data
LinePool ==
    { <<"1", ",", "\"", "A", "0", "1", "\"">>,                  \* 1,"A01"
      <<"1", " ", "A", "1", ",", "B", "1">>,                    \* 1 A1,B1
      <<"1", "0", "\t", "D", "2", " ", "Z", "9">>,              \* 10<tab>D2 Z9
      <<"2", ",", " ", "\"", "Z", "9", " ", "A", "1", "\"">>,   \* 2, "Z9 A1"
      <<"2", ",", "\"", "Z", "9">>,                             \* 2,"Z9
      <<"3", ",", "\"", "A", "u0661", "\"">>,                   \* 3,"A<U+0661>"
      <<"x">>,                                                  \* x
      << >> }                                                   \* blank line

Header == <<"I", "D">>

\* the header line, or a blank first line, then up to MaxLines lines
Texts ==
    { Join(<<h>> \o ls, "\n") :
        h \in {Header, << >>},
        ls \in UNION { [1..n -> LinePool] : n \in 0..MaxLines } }

-----------------------------------------------------------------------------
(* State machine *)

NoResult ==
    [op |-> "none", status |-> "ok", label |-> <<>>, distance |-> 0,
     boardingSequence |-> <<>>, totalBookings |-> 0, totalPassengers |-> 0,
     hits |-> 0, misses |-> 0]

\* no request is being served
NoRequest ==
    [endpoint |-> "none", hasData |-> FALSE, filename |-> <<>>, decodes |-> FALSE,
     hasIterations |-> FALSE, iterations |-> 0]

Processor == [cache |-> seat_cache, hits |-> cache_hits, misses |-> cache_misses]

\* OptimizedBoardingProcessor.__init__, and the request the session serves:
\* a batch for the sequencer, or a text for the parser
Init ==
    /\ seat_cache = << >>
    /\ cache_hits = 0
    /\ cache_misses = 0
    /\ result = NoResult
    /\ entry_list = << >>
    /\ request = NoRequest
    /\ in_flight = << >>
    /\ running = 0
    /\ \/ /\ stage = "batch"
          /\ data = << >>
          /\ bookings \in Batches
       \/ /\ stage = "text"
          /\ data \in Texts
          /\ bookings = << >>

\* get_seat_distance(seat_label) (also reached as calculate_seat_distance)
GetSeatDistance ==
    /\ cache_hits + cache_misses < MaxCalls
    /\ \E seat_label \in SeatLabels :
         LET returns(g) ==
                 /\ seat_cache' = g.cache
                 /\ cache_hits' = g.hits
                 /\ cache_misses' = g.misses
                 /\ result' = [NoResult EXCEPT !.op = "get_seat_distance",
                                               !.status = g.status,
                                               !.label = seat_label,
                                               !.distance = g.distance]
         IN  returns(GetSeatDistanceOp(Processor, seat_label))
    /\ UNCHANGED <<data, bookings, stage, entry_list, request,
                   in_flight, running>>

\* ClearCache leaving the two counters as they are
ClearCacheKeepsCounters ==
    /\ seat_cache' = << >>
    /\ result' = [NoResult EXCEPT !.op = "clear_cache"]
    /\ UNCHANGED <<cache_hits, cache_misses, data, bookings, stage, entry_list, request,
                   in_flight, running>>

\* clear_cache()
ClearCache ==
    /\ seat_cache' = << >>
    /\ cache_hits' = 0
    /\ cache_misses' = 0
    /\ result' = [NoResult EXCEPT !.op = "clear_cache"]
    /\ UNCHANGED <<data, bookings, stage, entry_list, request,
                   in_flight, running>>

\* parse_booking_data(data)
ParseData ==
    /\ stage = "text"
    /\ LET returns(r) ==
               /\ bookings' = r.bookings
               /\ stage' = IF r.status = "ok" THEN "parsed" ELSE "failed"
               /\ result' = [NoResult EXCEPT !.op = "parse_booking_data",
                                             !.status = r.status]
       IN  returns(ParseBookingData(data))
    /\ UNCHANGED <<seat_cache, cache_hits, cache_misses, data, entry_list, request,
                   in_flight, running>>

\* process_bookings_with_heap(bookings) (also reached as
\* generate_boarding_sequence); cacheStats is read from the ledger on return
ProcessBookings ==
    /\ stage \in {"batch", "parsed"}
    /\ cache_hits + cache_misses <= MaxCalls
    /\ LET returns(r) ==
               /\ seat_cache' = r.cache
               /\ cache_hits' = r.hits
               /\ cache_misses' = r.misses
               /\ result' = [NoResult EXCEPT
                                !.op = "process_bookings_with_heap",
                                !.status = r.status,
                                !.boardingSequence = r.boardingSequence,
                                !.totalBookings = r.totalBookings,
                                !.totalPassengers = r.totalPassengers,
                                !.hits = IF r.status = "ok" THEN r.hits ELSE 0,
                                !.misses = IF r.status = "ok" THEN r.misses ELSE 0]
       IN  returns(ProcessBookingsWithHeap(Processor, bookings))
    /\ UNCHANGED <<data, bookings, stage, entry_list, request,
                   in_flight, running>>

Next == GetSeatDistance \/ ClearCache \/ ParseData \/ ProcessBookings

Spec == Init /\ [][Next]_vars

-----------------------------------------------------------------------------
(* The resolver alone, on rows up to the end of the float grid *)

DigitChar(d) ==
    CASE d = 0 -> "0" [] d = 1 -> "1" [] d = 2 -> "2" [] d = 3 -> "3"
      [] d = 4 -> "4" [] d = 5 -> "5" [] d = 6 -> "6" [] d = 7 -> "7"
      [] d = 8 -> "8" [] d = 9 -> "9"

\* str(row) for an int row
IntStr(row) == [i \in 1..Len(row) |-> DigitChar(row[i])]

Columns == {"A", "B", "C", "D"}

\* rows a label may carry: small ones, one with a leading zero, and the rows
\* around each power of two from which the float grid gets coarser
DistanceRows ==
    { <<"0">>, <<"1">>, <<"0", "1">>, <<"2">>, <<"9">>, <<"1", "0">> }
        \cup UNION { { IntStr(BigPred(TwoTo(k))), IntStr(TwoTo(k)),
                       IntStr(BigSucc(TwoTo(k))) } :
                     k \in (Mantissa - FineBits - 1)..Mantissa }

\* labels handed to _calculate_seat_distance
DistanceLabels ==
    { <<c>> \o row : c \in Columns, row \in DistanceRows }
        \cup { <<"Z", "9">>, <<"A">> }

\* a caller about to resolve one label
InitDistance ==
    /\ seat_cache = << >>
    /\ cache_hits = 0
    /\ cache_misses = 0
    /\ result = NoResult
    /\ entry_list = << >>
    /\ request = NoRequest
    /\ in_flight = << >>
    /\ running = 0
    /\ stage = "label"
    /\ data \in DistanceLabels
    /\ bookings = << >>

\* _calculate_seat_distance(data)
CalculateDistance ==
    /\ stage = "label"
    /\ LET returns(r) ==
               result' = [NoResult EXCEPT !.op = "_calculate_seat_distance",
                                          !.status = r.status,
                                          !.label = data,
                                          !.distance = r.distance]
       IN  returns(CalculateSeatDistanceFloat(data))
    /\ stage' = "resolved"
    /\ UNCHANGED <<seat_cache, cache_hits, cache_misses, data, bookings, entry_list,
                   request,
                   in_flight, running>>

NextDistance == CalculateDistance

SpecDistance == InitDistance /\ [][NextDistance]_vars

\* process_bookings_with_heap returned (raised nothing) in the last step
-----------------------------------------------------------------------------
(* The analyzer alone, on any list of entries *)

MaxEntries == 3     \* entries in a list handed to analyze_boarding_efficiency

\* entries a caller may pass, with the two keys the analyzer reads
EntryPool ==
    { [bookingId |-> id, maxDistance |-> d] :
          id \in { <<"1">>, <<"2">> }, d \in {10, 13, 20} }

EntryLists == UNION { [1..n -> EntryPool] : n \in 0..MaxEntries }

\* a caller about to analyze one list
InitAnalyze ==
    /\ seat_cache = << >>
    /\ cache_hits = 0
    /\ cache_misses = 0
    /\ result = NoResult
    /\ request = NoRequest
    /\ in_flight = << >>
    /\ running = 0
    /\ stage = "entries"
    /\ entry_list \in EntryLists
    /\ data = << >>
    /\ bookings = << >>

\* analyze_boarding_efficiency(sequence)
AnalyzeEfficiency ==
    /\ stage = "entries"
    /\ LET returns(e) ==
               result' = [op |-> "analyze_boarding_efficiency",
                          status |-> e.status,
                          averageDistance |-> e.averageDistance,
                          blockingPotential |-> e.blockingPotential,
                          optimalityScore |-> e.optimalityScore]
       IN  returns(AnalyzeBoardingEfficiency(entry_list))
    /\ stage' = "analyzed"
    /\ UNCHANGED <<seat_cache, cache_hits, cache_misses, data, bookings, entry_list,
                   request,
                   in_flight, running>>

NextAnalyze == AnalyzeEfficiency

SpecAnalyze == InitAnalyze /\ [][NextAnalyze]_vars

-----------------------------------------------------------------------------
(* The sequencer's output handed to the analyzer, as every endpoint does *)

\* a caller with a batch and a freshly constructed processor
InitChain ==
    /\ seat_cache = << >>
    /\ cache_hits = 0
    /\ cache_misses = 0
    /\ result = NoResult
    /\ request = NoRequest
    /\ in_flight = << >>
    /\ running = 0
    /\ stage = "batch"
    /\ entry_list = << >>
    /\ data = << >>
    /\ bookings \in Batches

\* analyze_boarding_efficiency(result['boardingSequence']) on the result the
\* sequencer has just returned
AnalyzeSequence ==
    /\ stage = "batch"
    /\ result.op = "process_bookings_with_heap"
    /\ result.status = "ok"
    /\ entry_list' = result.boardingSequence
    /\ LET returns(e) ==
               result' = [op |-> "analyze_boarding_efficiency",
                          status |-> e.status,
                          averageDistance |-> e.averageDistance,
                          blockingPotential |-> e.blockingPotential,
                          optimalityScore |-> e.optimalityScore]
       IN  returns(AnalyzeBoardingEfficiency(result.boardingSequence))
    /\ stage' = "sequence analyzed"
    /\ UNCHANGED <<seat_cache, cache_hits, cache_misses, data, bookings, request,
                   in_flight, running>>

NextChain == ProcessBookings \/ AnalyzeSequence

SpecChain == InitChain /\ [][NextChain]_vars

-----------------------------------------------------------------------------
(* One request to a POST endpoint, served by a processor that earlier       *)
(* traffic has left in any state                                            *)

\* data lines of the texts posted to the endpoints
ApiLines ==
    { <<"1", ",", "\"", "A", "0", "1", "\"">>,                  \* 1,"A01"
      <<"2", ",", " ", "\"", "Z", "9", " ", "A", "1", "\"">>,   \* 2, "Z9 A1"
      <<"2", ",", "\"", "Z", "9">>,                             \* 2,"Z9
      <<"x">> }                                                 \* x

\* the header line, then up to MaxLines lines
ApiTexts ==
    { Join(<<Header>> \o ls, "\n") :
        ls \in UNION { [1..n -> ApiLines] : n \in 0..MaxLines } }

Filenames ==
    { <<"b", ".", "c", "s", "v">>, <<"b", ".", "t", "x", "t">>,
      <<"b", ".", "p", "d", "f">> }

\* the JSON bodies and files a client may post: with or without 'data',
\* with or without 'iterations'
Requests ==
    { [endpoint |-> e, hasData |-> d, filename |-> << >>, decodes |-> FALSE,
       hasIterations |-> FALSE, iterations |-> 0] :
          e \in {"/process-booking-data"}, d \in BOOLEAN }
    \cup
    { [endpoint |-> "/upload-file", hasData |-> FALSE, filename |-> f,
       decodes |-> u, hasIterations |-> FALSE, iterations |-> 0] :
          f \in Filenames, u \in BOOLEAN }
    \cup
    { [endpoint |-> e, hasData |-> d, filename |-> << >>, decodes |-> FALSE,
       hasIterations |-> h, iterations |-> IF h THEN n ELSE 0] :
          e \in {"/test-optimization", "/benchmark"}, d \in BOOLEAN,
          h \in BOOLEAN, n \in {0 - 1, 0, 1, 2} }

\* a fresh module-level processor, and the request that is going to arrive
InitApi ==
    /\ seat_cache = << >>
    /\ cache_hits = 0
    /\ cache_misses = 0
    /\ result = NoResult
    /\ entry_list = << >>
    /\ bookings = << >>
    /\ stage = "request"
    /\ request \in Requests
    /\ in_flight = << >>
    /\ running = 0
    /\ data \in IF request.hasData \/ request.decodes THEN ApiTexts ELSE { << >> }

\* the handler's exit: the processor as it leaves it and the response
Respond(r) ==
    /\ seat_cache' = r.cache
    /\ cache_hits' = r.hits
    /\ cache_misses' = r.misses
    /\ result' = [op |-> request.endpoint, status |-> r.status, body |-> r.body]
    /\ stage' = "responded"
    /\ UNCHANGED <<data, bookings, entry_list, request,
                   in_flight, running>>

\* earlier traffic: a resolve or a clear_cache on the shared processor
EarlierTraffic == stage = "request" /\ (GetSeatDistance \/ ClearCache)

\* POST /process-booking-data
PostProcessBookingData ==
    /\ stage = "request"
    /\ request.endpoint = "/process-booking-data"
    /\ Respond(ProcessBookingData(Processor, request, data))

\* POST /upload-file
PostUploadFile ==
    /\ stage = "request"
    /\ request.endpoint = "/upload-file"
    /\ Respond(UploadFile(Processor, request, data))

\* POST /test-optimization
PostTestOptimization ==
    /\ stage = "request"
    /\ request.endpoint = "/test-optimization"
    /\ Respond(TestOptimization(Processor, request, data))

\* POST /benchmark
PostBenchmark ==
    /\ stage = "request"
    /\ request.endpoint = "/benchmark"
    /\ Respond(BenchmarkAlgorithms(Processor, request, data))

NextApi ==
    \/ EarlierTraffic
    \/ PostProcessBookingData
    \/ PostUploadFile
    \/ PostTestOptimization
    \/ PostBenchmark

SpecApi == InitApi /\ [][NextApi]_vars

-----------------------------------------------------------------------------
(* Several requests in flight on the one event loop, all served by the     *)
(* module-level processor                                                   *)

MaxInFlight == 2    \* requests in flight at the same time

\* the texts the concurrent clients post
InFlightTexts ==
    { Join(<<Header, <<"1", ",", "\"", "A", "0", "1", "\"">>>>, "\n"),
      Join(<<Header, <<"1", ",", "\"", "A", "0", "1", "\"">>,
             <<"2", ",", " ", "\"", "Z", "9", " ", "A", "1", "\"">>>>, "\n") }

\* the requests the concurrent clients post, one kind per endpoint
InFlightRequests ==
    { [endpoint |-> "/process-booking-data", hasData |-> TRUE, filename |-> << >>,
       decodes |-> FALSE, hasIterations |-> FALSE, iterations |-> 0],
      [endpoint |-> "/upload-file", hasData |-> FALSE,
       filename |-> <<"b", ".", "t", "x", "t">>, decodes |-> TRUE,
       hasIterations |-> FALSE, iterations |-> 0],
      [endpoint |-> "/test-optimization", hasData |-> TRUE, filename |-> << >>,
       decodes |-> FALSE, hasIterations |-> FALSE, iterations |-> 0],
      [endpoint |-> "/benchmark", hasData |-> TRUE, filename |-> << >>,
       decodes |-> FALSE, hasIterations |-> TRUE, iterations |-> 1] }

\* a request the server has accepted and not started to handle
Accepted(req, text) ==
    [request |-> req, text |-> text, pc |-> "accepted", todo |-> << >>,
     raises |-> FALSE, in_call |-> FALSE]

\* a fresh module-level processor and the requests in flight
InitConcurrent ==
    /\ seat_cache = << >>
    /\ cache_hits = 0
    /\ cache_misses = 0
    /\ result = NoResult
    /\ entry_list = << >>
    /\ bookings = << >>
    /\ data = << >>
    /\ stage = "serving"
    /\ request = NoRequest
    /\ running = 0
    /\ \E n \in 1..MaxInFlight :
           in_flight \in [1..n -> {Accepted(req, text) : req \in InFlightRequests,
                                                        text \in InFlightTexts}]

\* the event loop lets coroutine c take its next step: it is the one the
\* loop is executing, or the loop is idle and c waits to be resumed
Turn(c) ==
    \/ running = c
    \/ running = 0 /\ in_flight[c].pc = "suspended"

\* coroutine c goes on with the operations rest after operation op
Continue(c, op, rest, raises, in_call) ==
    /\ in_flight' = [in_flight EXCEPT
                        ![c].todo = rest,
                        ![c].raises = raises,
                        ![c].in_call = in_call,
                        ![c].pc = IF Yields(op) THEN "suspended" ELSE "running"]
    /\ running' = IF Yields(op) THEN 0 ELSE c

\* the idle event loop starts the handler of an accepted request
StartHandler ==
    \E c \in DOMAIN in_flight :
        /\ running = 0
        /\ in_flight[c].pc = "accepted"
        /\ LET started(prog) ==
                   in_flight' = [in_flight EXCEPT ![c].pc = "running",
                                                  ![c].todo = prog.ops,
                                                  ![c].raises = prog.raises]
           IN  started(HandlerProgram(in_flight[c].request, in_flight[c].text))
        /\ running' = c
        /\ UNCHANGED <<seat_cache, cache_hits, cache_misses, data, bookings, stage,
                       entry_list, request, result>>

\* content = await file.read()
AwaitRead ==
    \E c \in DOMAIN in_flight :
        /\ Turn(c)
        /\ in_flight[c].todo # << >>
        /\ Head(in_flight[c].todo).kind = "await"
        /\ Continue(c, Head(in_flight[c].todo), Tail(in_flight[c].todo),
                    in_flight[c].raises, FALSE)
        /\ result' = [NoResult EXCEPT !.op = "file.read"]
        /\ UNCHANGED <<seat_cache, cache_hits, cache_misses, data, bookings, stage,
                       entry_list, request>>

\* processor.clear_cache() in the loop of test_optimization or
\* benchmark_algorithms
ClearCacheCall ==
    \E c \in DOMAIN in_flight :
        /\ Turn(c)
        /\ in_flight[c].todo # << >>
        /\ Head(in_flight[c].todo).kind = "clear"
        /\ LET cleared(p) ==
                   /\ seat_cache' = p.cache
                   /\ cache_hits' = p.hits
                   /\ cache_misses' = p.misses
           IN  cleared(ClearCacheOp(Processor))
        /\ Continue(c, Head(in_flight[c].todo), Tail(in_flight[c].todo),
                    in_flight[c].raises, FALSE)
        /\ result' = [NoResult EXCEPT !.op = "clear_cache"]
        /\ UNCHANGED <<data, bookings, stage, entry_list, request>>

\* process_bookings_with_heap is entered: the heap is empty
EnterSequencing ==
    \E c \in DOMAIN in_flight :
        /\ Turn(c)
        /\ in_flight[c].todo # << >>
        /\ Head(in_flight[c].todo).kind = "enter"
        /\ Continue(c, Head(in_flight[c].todo), Tail(in_flight[c].todo),
                    in_flight[c].raises, TRUE)
        /\ result' = [NoResult EXCEPT !.op = "process_bookings_with_heap",
                                      !.status = "entered"]
        /\ UNCHANGED <<seat_cache, cache_hits, cache_misses, data, bookings, stage,
                       entry_list, request>>

\* one get_seat_distance call of the first loop; when it raises, the
\* handler's except clause is all that is left to do
ResolveSeat ==
    \E c \in DOMAIN in_flight :
        /\ Turn(c)
        /\ in_flight[c].todo # << >>
        /\ Head(in_flight[c].todo).kind = "resolve"
        /\ LET returns(g) ==
                   /\ seat_cache' = g.cache
                   /\ cache_hits' = g.hits
                   /\ cache_misses' = g.misses
                   /\ result' = [NoResult EXCEPT !.op = "get_seat_distance",
                                                 !.status = g.status,
                                                 !.label = Head(in_flight[c].todo).label,
                                                 !.distance = g.distance]
                   /\ IF g.status = "ok"
                      THEN Continue(c, Head(in_flight[c].todo), Tail(in_flight[c].todo),
                                    in_flight[c].raises, TRUE)
                      ELSE Continue(c, Head(in_flight[c].todo), << >>, TRUE, FALSE)
           IN  returns(GetSeatDistanceOp(Processor, Head(in_flight[c].todo).label))
        /\ UNCHANGED <<data, bookings, stage, entry_list, request>>

\* the second loop drains the heap and process_bookings_with_heap returns
ReturnSequencing ==
    \E c \in DOMAIN in_flight :
        /\ Turn(c)
        /\ in_flight[c].todo # << >>
        /\ Head(in_flight[c].todo).kind = "return"
        /\ Continue(c, Head(in_flight[c].todo), Tail(in_flight[c].todo),
                    in_flight[c].raises, FALSE)
        /\ result' = [NoResult EXCEPT !.op = "process_bookings_with_heap",
                                      !.status = "returned"]
        /\ UNCHANGED <<seat_cache, cache_hits, cache_misses, data, bookings, stage,
                       entry_list, request>>

\* the handler returns its dict (200) or raises HTTPException (400), and the
\* event loop is idle again
FinishHandler ==
    \E c \in DOMAIN in_flight :
        /\ Turn(c)
        /\ in_flight[c].todo = << >>
        /\ in_flight' = [in_flight EXCEPT ![c].pc = "done"]
        /\ running' = 0
        /\ result' = [NoResult EXCEPT !.op = in_flight[c].request.endpoint,
                                      !.status = IF in_flight[c].raises THEN 400 ELSE 200]
        /\ UNCHANGED <<seat_cache, cache_hits, cache_misses, data, bookings, stage,
                       entry_list, request>>

NextConcurrent ==
    \/ StartHandler
    \/ AwaitRead
    \/ ClearCacheCall
    \/ EnterSequencing
    \/ ResolveSeat
    \/ ReturnSequencing
    \/ FinishHandler

SpecConcurrent == InitConcurrent /\ [][NextConcurrent]_vars

-----------------------------------------------------------------------------
(* Properties of the sequencer *)

Returned == result.op = "process_bookings_with_heap" /\ result.status = "ok"

Entries == result.boardingSequence

\* maxDistance of a booking whose seats are all well-formed
MaxDistanceOf(booking) ==
    SeqMax([i \in 1..Len(booking.seats) |->
               CalculateSeatDistance(booking.seats[i]).distance])

\* every entry that carries booking a stands before every entry that carries b
EmittedBefore(a, b) ==
    \A p, q \in DOMAIN Entries :
        ( /\ Entries[p].bookingId = a.bookingId /\ Entries[p].seats = a.seats
          /\ Entries[q].bookingId = b.bookingId /\ Entries[q].seats = b.seats )
        => p < q

\* C1: whenever process_bookings_with_heap returns, the boardingSequence is
\* non-increasing in maxDistance over every pair of adjacent positions.
C1_Monotone ==
    Returned =>
        \A i \in 1..(Len(Entries) - 1) :
            Entries[i].maxDistance >= Entries[i + 1].maxDistance

\* a returned sequence of three entries with a strict descent and a tie, from
\* a batch that did not arrive in that order
C1_Witness ==
    /\ Returned
    /\ Len(Entries) = 3
    /\ Entries[1].maxDistance > Entries[2].maxDistance
    /\ Entries[2].maxDistance = Entries[3].maxDistance
    /\ MaxDistanceOf(bookings[1]) < MaxDistanceOf(bookings[3])

\* the number of positions of a sequence of bookings or entries that carry id
CountId(seq, id) == Cardinality({i \in DOMAIN seq : seq[i].bookingId = id})

TieGroupIn(d) ==
    LET tied(b) == MaxDistanceOf(b) = d
        g == SelectSeq(bookings, tied)
    IN  [i \in 1..Len(g) |-> <<g[i].bookingId, g[i].seats>>]

TieGroupOut(d) ==
    LET tied(e) == e.maxDistance = d
        g == SelectSeq(Entries, tied)
    IN  [i \in 1..Len(g) |-> <<g[i].bookingId, g[i].seats>>]

\* C3 as claimed: among bookings with equal maxDistance the output keeps the
\* arrival order of the input batch.
C3_ArrivalOrderAmongTies ==
    Returned =>
        \A k \in DOMAIN Entries :
            TieGroupOut(Entries[k].maxDistance) = TieGroupIn(Entries[k].maxDistance)

\* C3 as amended: of two bookings with equal maxDistance and different
\* bookingIds the one with the smaller bookingId string is emitted first; the
\* arrival order is kept when the earlier booking has the smaller bookingId
\* and is reversed when the later one has it.
C3_ArrivalOrderOnlyIfIdAscending ==
    Returned =>
        \A i, j \in DOMAIN bookings :
            (i < j /\ MaxDistanceOf(bookings[i]) = MaxDistanceOf(bookings[j])) =>
                /\ StrLt(bookings[i].bookingId, bookings[j].bookingId)
                       => EmittedBefore(bookings[i], bookings[j])
                /\ StrLt(bookings[j].bookingId, bookings[i].bookingId)
                       => EmittedBefore(bookings[j], bookings[i])

\* a returned sequence in which two tied bookings stand in the opposite of
\* their arrival order
C3_Witness ==
    /\ Returned
    /\ \E i, j \in DOMAIN bookings :
          /\ i < j
          /\ MaxDistanceOf(bookings[i]) = MaxDistanceOf(bookings[j])
          /\ StrLt(bookings[j].bookingId, bookings[i].bookingId)
          /\ \E p, q \in DOMAIN Entries :
                /\ p < q
                /\ Entries[p].bookingId = bookings[j].bookingId
                /\ Entries[q].bookingId = bookings[i].bookingId

\* C4: in a returned boardingSequence, entries with equal maxDistance stand
\* in ascending bookingId string order, whatever the order of the batch.
C4_TiesByBookingId ==
    Returned =>
        \A p, q \in DOMAIN Entries :
            (p < q /\ Entries[p].maxDistance = Entries[q].maxDistance)
                => ~StrLt(Entries[q].bookingId, Entries[p].bookingId)

\* a returned sequence with a tie whose two bookings arrived with the larger
\* bookingId first; "10" stands before "2" as strings
C4_Witness ==
    /\ Returned
    /\ Len(bookings) >= 2
    /\ bookings[1].bookingId = <<"2">>
    /\ bookings[2].bookingId = <<"1", "0">>
    /\ \E p \in 1..(Len(Entries) - 1) :
          /\ Entries[p].maxDistance = Entries[p + 1].maxDistance
          /\ Entries[p].bookingId = <<"1", "0">>
          /\ Entries[p + 1].bookingId = <<"2">>

-----------------------------------------------------------------------------
(* Properties of the distance resolver and its ledger *)

\* the seat label pattern ^[A-D][0-9]+$ : one column letter, then one or more
\* of the digits 0-9, and nothing else
StrictSeatPattern(label) ==
    /\ Len(label) >= 2
    /\ label[1] \in {"A", "B", "C", "D"}
    /\ \A i \in 2..Len(label) :
           label[i] \in {"0", "1", "2", "3", "4", "5", "6", "7", "8", "9"}

\* C5: a get_seat_distance step on a cached label returns the stored value,
\* adds one hit and changes neither the misses nor the cache; on a valid
\* label that is not cached it returns the computed value, stores it, adds
\* one miss and leaves the hits; a repeat of the label just resolved returns
\* the same value and changes the hit counter only.
C5_CacheProtocol ==
    [][ result'.op = "get_seat_distance" =>
          LET label == result'.label
          IN  /\ label \in DOMAIN seat_cache =>
                    /\ result'.status = "ok"
                    /\ result'.distance = seat_cache[label]
                    /\ cache_hits' = cache_hits + 1
                    /\ cache_misses' = cache_misses
                    /\ seat_cache' = seat_cache
              /\ (label \notin DOMAIN seat_cache /\ SeatMatch(label).matched) =>
                    /\ result'.status = "ok"
                    /\ result'.distance = CalculateSeatDistance(label).distance
                    /\ DOMAIN seat_cache' = DOMAIN seat_cache \cup {label}
                    /\ seat_cache'[label] = result'.distance
                    /\ \A l \in DOMAIN seat_cache : seat_cache'[l] = seat_cache[l]
                    /\ cache_misses' = cache_misses + 1
                    /\ cache_hits' = cache_hits
              /\ ( /\ result.op = "get_seat_distance"
                   /\ result.status = "ok"
                   /\ result.label = label ) =>
                    /\ result'.distance = result.distance
                    /\ cache_hits' = cache_hits + 1
                    /\ cache_misses' = cache_misses
                    /\ seat_cache' = seat_cache
      ]_vars

\* the second resolve of a label: one miss, then one hit
C5_Witness ==
    /\ result.op = "get_seat_distance"
    /\ result.status = "ok"
    /\ result.label \in DOMAIN seat_cache
    /\ cache_misses = 1
    /\ cache_hits = 1

\* C6: whatever operations ran, every cached value is row + columnWeight of
\* its label, and get_seat_distance returns that value for the label, from
\* the cache or computed, whatever the counters hold.
C6_DistanceIsFunctionOfLabel ==
    /\ \A label \in DOMAIN seat_cache :
           /\ SeatMatch(label).matched
           /\ seat_cache[label] =
                  10 * ParseInt(SeatMatch(label).digits)
                      + column_weights(SeatMatch(label).column)
    /\ (result.op = "get_seat_distance" /\ result.status = "ok") =>
           result.distance =
               10 * ParseInt(SeatMatch(result.label).digits)
                   + column_weights(SeatMatch(result.label).column)

\* a label of the batch served from the cache: one miss, then one hit
C6_Witness ==
    /\ result.op = "get_seat_distance"
    /\ result.status = "ok"
    /\ stage = "batch"
    /\ bookings # << >>
    /\ cache_hits = 1
    /\ result.label \in DOMAIN seat_cache
    /\ Cardinality(DOMAIN seat_cache) = 1
    /\ cache_misses = 1
    /\ result.distance = 13

\* C7: a clear_cache step leaves the cache empty and both counters 0
\* together, and the first get_seat_distance after it, of any label that was
\* cached before the clear, is a miss that returns the value the label had.
C7_ClearResetsTogether ==
    [][ result'.op = "clear_cache" =>
          /\ seat_cache' = << >>
          /\ cache_hits' = 0
          /\ cache_misses' = 0
          /\ \A label \in DOMAIN seat_cache :
                 LET g == GetSeatDistanceOp([cache |-> seat_cache',
                                             hits |-> cache_hits',
                                             misses |-> cache_misses'], label)
                 IN  /\ g.status = "ok"
                     /\ g.distance = seat_cache[label]
                     /\ g.misses = 1
                     /\ g.hits = 0
                     /\ DOMAIN g.cache = {label}
      ]_vars

\* the state a clear_cache leaves
C7_Witness ==
    /\ result.op = "clear_cache"
    /\ seat_cache = << >>
    /\ cache_hits = 0
    /\ cache_misses = 0

\* C8 as claimed: a label that does not match ^[A-D][0-9]+$ makes
\* get_seat_distance fail with the invalid-seat-format error, and a batch
\* that holds such a label makes process_bookings_with_heap fail.
C8_MalformedLabelFails ==
    /\ (result.op = "get_seat_distance" /\ ~StrictSeatPattern(result.label))
           => result.status = "InvalidSeatFormat"
    /\ ( /\ result.op = "process_bookings_with_heap"
         /\ \E i \in DOMAIN bookings : \E k \in DOMAIN bookings[i].seats :
                ~StrictSeatPattern(bookings[i].seats[k]) )
           => result.status # "ok"

-----------------------------------------------------------------------------
(* Properties of the parser *)

\* C9 as claimed: in what parse_booking_data returns every seat matches the
\* seat pattern and every booking has a seat, and the sequencer applied to
\* it does not fail with the invalid-seat-format error.
C9_ParserPrefilters ==
    stage = "parsed" =>
        /\ \A i \in DOMAIN bookings :
               /\ bookings[i].seats # << >>
               /\ \A k \in DOMAIN bookings[i].seats :
                      StrictSeatPattern(bookings[i].seats[k])
        /\ result.op = "process_bookings_with_heap"
               => result.status # "InvalidSeatFormat"

\* the lines of the text as parse_booking_data splits them
DataLines == Split(Strip(data), "\n")

\* the bookings a line gives when it is parsed on its own
Alone(line) ==
    ParseLine([bookings |-> << >>, booking_ids |-> {}, re_bound |-> TRUE,
               status |-> "ok"], line).bookings

-----------------------------------------------------------------------------
(* Properties of the sequencer's totals and entries *)

\* C11: process_bookings_with_heap on the empty batch returns, with an empty
\* boardingSequence, totalBookings 0 and totalPassengers 0, and raises
\* nothing, whatever the cache and the ledger held when it was called.
C11_EmptyBatch ==
    (result.op = "process_bookings_with_heap" /\ bookings = << >>) =>
        /\ result.status = "ok"
        /\ result.boardingSequence = << >>
        /\ result.totalBookings = 0
        /\ result.totalPassengers = 0

\* the empty batch sequenced by a processor whose cache holds a distance and
\* whose ledger has recorded a hit and a miss
C11_Witness ==
    /\ result.op = "process_bookings_with_heap"
    /\ bookings = << >>
    /\ stage = "batch"
    /\ result.status = "ok"
    /\ DOMAIN seat_cache # {}
    /\ cache_hits = 1
    /\ cache_misses = 1

\* the seats of all bookings of a batch, one after the other
RECURSIVE AllSeats(_)
AllSeats(batch) ==
    IF batch = <<>> THEN <<>> ELSE batch[1].seats \o AllSeats(Tail(batch))

\* C12: in a returned result totalBookings is the number of bookings of the
\* batch, totalPassengers is the sum of the lengths of their seat lists (a
\* label that occurs twice is counted twice), and totalBookings equals the
\* length of the boardingSequence.
C12_Totals ==
    Returned =>
        /\ result.totalBookings = Len(bookings)
        /\ result.totalPassengers = Len(AllSeats(bookings))
        /\ result.totalBookings = Len(Entries)

\* a returned result for a batch in which a booking repeats a label, so that
\* there are more passengers than distinct labels
C12_Witness ==
    /\ Returned
    /\ Len(bookings) = 3
    /\ \E i \in DOMAIN bookings : bookings[i].seats = << <<"A", "1">>, <<"A", "1">> >>
    /\ result.totalPassengers = 5
    /\ result.totalPassengers
           > Cardinality({AllSeats(bookings)[k] : k \in 1..Len(AllSeats(bookings))})

\* the distances of the seats of an entry, as a set
SeatDistances(entry) ==
    {CalculateSeatDistance(entry.seats[k]).distance : k \in 1..Len(entry.seats)}

\* C13: every entry of a returned boardingSequence carries the bookingId and
\* the seats of a booking of the batch, unchanged, with maxDistance the
\* largest and minDistance the smallest distance of those seats; so
\* minDistance <= maxDistance, with equality for a single seat.
C13_EntryExtremes ==
    Returned =>
        \A p \in DOMAIN Entries :
            /\ \E i \in DOMAIN bookings :
                  /\ bookings[i].bookingId = Entries[p].bookingId
                  /\ bookings[i].seats = Entries[p].seats
            /\ Entries[p].maxDistance \in SeatDistances(Entries[p])
            /\ Entries[p].minDistance \in SeatDistances(Entries[p])
            /\ \A d \in SeatDistances(Entries[p]) :
                  Entries[p].minDistance <= d /\ d <= Entries[p].maxDistance
            /\ Entries[p].minDistance <= Entries[p].maxDistance
            /\ Len(Entries[p].seats) = 1
                   => Entries[p].minDistance = Entries[p].maxDistance

\* a returned sequence with an entry whose first seat is its farthest and
\* whose extremes differ, and an entry of a single seat
C13_Witness ==
    /\ Returned
    /\ \E p \in DOMAIN Entries :
          /\ Len(Entries[p].seats) = 2
          /\ Entries[p].minDistance < Entries[p].maxDistance
          /\ CalculateSeatDistance(Entries[p].seats[1]).distance = Entries[p].maxDistance
    /\ \E p \in DOMAIN Entries : Len(Entries[p].seats) = 1

-----------------------------------------------------------------------------
(* Properties of the resolver's arithmetic *)

\* the distance of the seat of column c in the row whose int is row
DistanceOf(c, row) == CalculateSeatDistanceFloat(<<c>> \o IntStr(row)).distance

\* C14: the distance of a valid label is its row plus the weight of its
\* column (to within half a tenth); it is larger than the distance of every
\* seat of the same row whose column has a smaller weight, so A > B > C > D
\* within a row; and column D of the next row is farther than column A.
C14_RowThenColumn ==
    (result.op = "_calculate_seat_distance" /\ result.status = "ok") =>
        LET at(column, row) ==
                /\ result.distance.whole = row
                /\ result.distance.part - column_weights(column) * (Unit \div 10)
                       \in (1 - Unit \div 20)..(Unit \div 20 - 1)
                /\ \A c \in Columns :
                       column_weights(c) < column_weights(column)
                           => FloatLt(DistanceOf(c, row), result.distance)
                /\ column = "A"
                       => FloatLt(result.distance, DistanceOf("D", BigSucc(row)))
        IN  at(SeatMatch(result.label).column, BigInt(SeatMatch(result.label).digits))

-----------------------------------------------------------------------------
(* Properties of the analyzer *)

Analyzed == result.op = "analyze_boarding_efficiency"

\* no entry of the sequence stands before an entry with a larger maxDistance
Descending(s) ==
    \A i, j \in DOMAIN s : i < j => s[i].maxDistance >= s[j].maxDistance

\* the pairs of positions (i, j), i before j, whose earlier entry has the
\* strictly smaller maxDistance
Inversions(s) ==
    {p \in (DOMAIN s) \X (DOMAIN s) :
        p[1] < p[2] /\ s[p[1]].maxDistance < s[p[2]].maxDistance}

\* the sum over a set of pairs of how much farther the later entry reaches
RECURSIVE SumOfGaps(_, _)
SumOfGaps(s, pairs) ==
    IF pairs = {} THEN 0
    ELSE LET p == CHOOSE q \in pairs : TRUE
         IN  (s[p[2]].maxDistance - s[p[1]].maxDistance) + SumOfGaps(s, pairs \ {p})

\* the order of the positions of s in its descending-by-maxDistance order
\* that keeps entries of equal maxDistance in their order in s
StableOrder(s) ==
    CHOOSE f \in [DOMAIN s -> DOMAIN s] :
        /\ \A a, b \in DOMAIN s : a # b => f[a] # f[b]
        /\ \A a, b \in DOMAIN s :
               a < b => \/ s[f[a]].maxDistance > s[f[b]].maxDistance
                        \/ /\ s[f[a]].maxDistance = s[f[b]].maxDistance
                           /\ f[a] < f[b]

\* the positions at which s carries the bookingId its reference order carries
Matches(s) ==
    {i \in DOMAIN s : s[i].bookingId = s[StableOrder(s)[i]].bookingId}

\* C15: for every non-empty list of entries in descending maxDistance order,
\* ties allowed, analyze_boarding_efficiency returns blockingPotential 0 and
\* optimalityScore 100.
C15_DescendingIsOptimal ==
    (Analyzed /\ entry_list # << >> /\ Descending(entry_list)) =>
        /\ result.status = "ok"
        /\ result.blockingPotential = 0
        /\ result.optimalityScore.num = 100 * result.optimalityScore.den

\* an analyzed descending list of three entries with a tie between entries of
\* different bookingIds, the larger bookingId first
C15_Witness ==
    /\ Analyzed
    /\ Len(entry_list) = 3
    /\ Descending(entry_list)
    /\ entry_list[1].maxDistance > entry_list[2].maxDistance
    /\ entry_list[2].maxDistance = entry_list[3].maxDistance
    /\ entry_list[2].bookingId = <<"2">>
    /\ entry_list[3].bookingId = <<"1">>

\* C16: blockingPotential is the sum, over all pairs of positions i < j with
\* entries[i].maxDistance < entries[j].maxDistance, of the difference of the
\* two; it is never negative, and it is 0 exactly when no such pair exists.
C16_BlockingPotential ==
    Analyzed =>
        /\ result.blockingPotential = SumOfGaps(entry_list, Inversions(entry_list))
        /\ result.blockingPotential >= 0
        /\ result.blockingPotential = 0 <=> Inversions(entry_list) = {}

\* an analyzed list in ascending order, where the first and the last entry
\* form an inversion that is not one of neighbours
C16_Witness ==
    /\ Analyzed
    /\ Len(entry_list) = 3
    /\ entry_list[1].maxDistance < entry_list[2].maxDistance
    /\ entry_list[2].maxDistance < entry_list[3].maxDistance
    /\ result.blockingPotential
           = 2 * (entry_list[3].maxDistance - entry_list[1].maxDistance)

\* C17: optimalityScore is 100 * m / n for a list of n > 0 entries, m being
\* the number of positions whose bookingId is the one at the same position of
\* the stable descending-by-maxDistance reference; it lies between 0 and 100.
C17_OptimalityScore ==
    (Analyzed /\ entry_list # << >>) =>
        /\ result.optimalityScore.den > 0
        /\ result.optimalityScore.num * Len(entry_list)
               = 100 * Cardinality(Matches(entry_list)) * result.optimalityScore.den
        /\ result.optimalityScore.num >= 0
        /\ result.optimalityScore.num <= 100 * result.optimalityScore.den

\* an analyzed list out of order in which one position of three matches the
\* reference only because a bookingId repeats
C17_Witness ==
    /\ Analyzed
    /\ Len(entry_list) = 3
    /\ ~Descending(entry_list)
    /\ Cardinality(Matches(entry_list)) = 1
    /\ \E i \in Matches(entry_list) : StableOrder(entry_list)[i] # i
    /\ 3 * result.optimalityScore.num = 100 * result.optimalityScore.den

\* C18: analyze_boarding_efficiency on the empty list returns averageDistance
\* 0, blockingPotential 0 and optimalityScore 0, and raises nothing.
C18_EmptySequence ==
    (Analyzed /\ entry_list = << >>) =>
        /\ result.status = "ok"
        /\ result.averageDistance.num = 0
        /\ result.blockingPotential = 0
        /\ result.optimalityScore.num = 0

\* the empty list analyzed
C18_Witness ==
    /\ Analyzed
    /\ entry_list = << >>
    /\ stage = "analyzed"
    /\ result.status = "ok"

-----------------------------------------------------------------------------
(* Properties of the endpoints *)

Responded == stage = "responded"

\* what the handler of the request answers on a processor just constructed
FreshResponse ==
    LET fresh == [cache |-> << >>, hits |-> 0, misses |-> 0]
        of(r) == [status |-> r.status, body |-> r.body]
    IN  CASE request.endpoint = "/process-booking-data"
                 -> of(ProcessBookingData(fresh, request, data))
          [] request.endpoint = "/upload-file"
                 -> of(UploadFile(fresh, request, data))
          [] request.endpoint = "/test-optimization"
                 -> of(TestOptimization(fresh, request, data))
          [] request.endpoint = "/benchmark"
                 -> of(BenchmarkAlgorithms(fresh, request, data))

\* C19: a success response of a POST endpoint has none of the keys
\* processingTime, cacheStats, hits, misses, hitRate, neither at its top level
\* nor in its efficiency dict nor in an entry of its boardingSequence; and
\* the response to a request, success or error, is the one a fresh processor
\* gives, whatever the cache and the ledger held before.
C19_NoDiagnosticsInResponse ==
    Responded =>
        LET hidden == {"processingTime", "cacheStats", "hits", "misses", "hitRate"}
        IN  /\ result.status = 200 =>
                  /\ DOMAIN result.body \cap hidden = {}
                  /\ DOMAIN result.body.efficiency \cap hidden = {}
                  /\ \A i \in DOMAIN result.body.boardingSequence :
                         DOMAIN result.body.boardingSequence[i] \cap hidden = {}
            /\ [status |-> result.status, body |-> result.body] = FreshResponse

\* a success response with two entries, given by a processor that had
\* recorded a hit and a miss and held a distance when the request arrived,
\* to an endpoint that does not clear the cache
C19_Witness ==
    /\ Responded
    /\ result.status = 200
    /\ request.endpoint \in {"/process-booking-data", "/upload-file"}
    /\ Len(result.body.boardingSequence) = 2
    /\ cache_hits >= 2
    /\ cache_misses >= 2

\* no line after the first gives a booking when it is parsed on its own
NoEligibleBooking == \A k \in 2..Len(DataLines) : Alone(DataLines[k]) = << >>

\* C20: a process-booking-data request whose text yields no eligible booking
\* (a single line, which is taken as the header, or only lines without a
\* valid seat) is answered with a normal success: empty boardingSequence,
\* totalBookings 0, totalPassengers 0 and the three efficiency metrics 0.
C20_DegenerateTextSucceeds ==
    ( /\ Responded
      /\ request.endpoint = "/process-booking-data"
      /\ request.hasData
      /\ NoEligibleBooking ) =>
        /\ result.status = 200
        /\ result.body.boardingSequence = << >>
        /\ result.body.totalBookings = 0
        /\ result.body.totalPassengers = 0
        /\ result.body.efficiency.averageDistance.num = 0
        /\ result.body.efficiency.blockingPotential = 0
        /\ result.body.efficiency.optimalityScore.num = 0

-----------------------------------------------------------------------------
(* Properties of the ledger across failures and whole sequencing calls *)

\* C23: a get_seat_distance call that fails with the invalid-seat-format
\* error leaves seat_cache, cache_hits and cache_misses as they were.
C23_FailedResolveChangesNothing ==
    [][ (result'.op = "get_seat_distance" /\ result'.status = "InvalidSeatFormat")
            => /\ seat_cache' = seat_cache
               /\ cache_hits' = cache_hits
               /\ cache_misses' = cache_misses ]_vars

\* the seat occurrences of the batch, and its distinct labels
SeatOccurrences == Len(AllSeats(bookings))

DistinctSeats == {AllSeats(bookings)[k] : k \in 1..Len(AllSeats(bookings))}

\* C24: in every state cache_misses is the number of labels seat_cache holds;
\* a get_seat_distance call adds exactly one to cache_hits + cache_misses, a
\* sequencing call that returns adds one per seat occurrence, clear_cache
\* sets both to 0; and a sequencing call that returns on a cleared processor
\* ends with cache_misses the number of distinct labels of the batch and
\* cache_hits the seat occurrences minus that number.
C24_LedgerCounts ==
    [][ /\ cache_misses' = Cardinality(DOMAIN seat_cache')
        /\ result'.op = "get_seat_distance"
               => cache_hits' + cache_misses' = cache_hits + cache_misses + 1
        /\ result'.op = "clear_cache" => cache_hits' + cache_misses' = 0
        /\ (result'.op = "process_bookings_with_heap" /\ result'.status = "ok")
               => /\ cache_hits' + cache_misses'
                         = cache_hits + cache_misses + SeatOccurrences
                  /\ (seat_cache = << >> /\ cache_hits = 0 /\ cache_misses = 0)
                         => /\ cache_misses' = Cardinality(DistinctSeats)
                            /\ cache_hits' = SeatOccurrences - Cardinality(DistinctSeats) ]_vars

\* C25: process_bookings_with_heap returns for every batch in which each
\* booking has at least one seat and every seat label matches ^[A-D][0-9]+$,
\* whether or not bookingIds repeat and whether or not bookings tie.
C25_ValidBatchReturns ==
    ( /\ result.op = "process_bookings_with_heap"
      /\ \A i \in DOMAIN bookings :
             /\ bookings[i].seats # << >>
             /\ \A k \in DOMAIN bookings[i].seats :
                    StrictSeatPattern(bookings[i].seats[k]) )
        => result.status = "ok"

-----------------------------------------------------------------------------
(* Properties of the sequencer's output under the analyzer *)

SequenceAnalyzed == stage = "sequence analyzed"

\* C22: whenever process_bookings_with_heap returns a boardingSequence, the
\* analyzer applied to it returns blockingPotential 0, and optimalityScore
\* 100 when the sequence is not empty: every position of the sequence holds
\* the entry the analyzer's reference order (descending maxDistance, ties in
\* their order in the sequence) has there.
C22_SequencerOutputIsOptimal ==
    SequenceAnalyzed =>
        /\ result.status = "ok"
        /\ result.blockingPotential = 0
        /\ entry_list # << >> =>
               result.optimalityScore.num = 100 * result.optimalityScore.den
        /\ \A i \in DOMAIN entry_list : StableOrder(entry_list)[i] = i
        /\ SortedByKey(entry_list, << >>) = entry_list

\* an analyzed sequence of three bookings, two of them tied on maxDistance,
\* that the batch held in another order
C22_Witness ==
    /\ SequenceAnalyzed
    /\ Len(entry_list) = 3
    /\ entry_list[1].maxDistance > entry_list[2].maxDistance
    /\ entry_list[2].maxDistance = entry_list[3].maxDistance
    /\ entry_list[2].bookingId # entry_list[3].bookingId
    /\ bookings[1].bookingId = entry_list[3].bookingId
    /\ bookings[3].bookingId = entry_list[1].bookingId

-----------------------------------------------------------------------------
(* Properties of concurrent requests *)

\* the cache and the ledger of the shared processor
Ledger == <<seat_cache, cache_hits, cache_misses>>

\* C21: with several requests in flight on the shared processor, while one
\* request is inside a sequencing call every change of seat_cache,
\* cache_hits and cache_misses is a step of that request: no other request's
\* clear_cache or resolve falls between two of its get_seat_distance calls.
C21_ExclusivePerRequest ==
    [][ \A c \in DOMAIN in_flight :
            (in_flight[c].in_call /\ Ledger' # Ledger)
                => in_flight'[c] # in_flight[c] ]_vars

\* a request is between two resolves of its sequencing call, the first
\* label already counted, while a test-optimization or benchmark request,
\* which clears the cache, waits for the event loop
C21_Witness ==
    \E c, d \in DOMAIN in_flight :
        /\ c # d
        /\ in_flight[c].in_call
        /\ cache_misses > 0
        /\ Head(in_flight[c].todo).kind = "resolve"
        /\ in_flight[d].request.endpoint \in {"/test-optimization", "/benchmark"}
        /\ in_flight[d].pc = "accepted"

=============================================================================
